---------------------------- MODULE Spec2Model ----------------------------
(***************************************************************************)
(* Model of the manhua-matchmaker hybrid recommender                       *)
(* (src/src/models/recommender.py) and of the part of the Streamlit        *)
(* application that builds and uses it (src/src/app/main.py).              *)
(*                                                                         *)
(* Conventions                                                             *)
(*  - a Python str is a sequence of one-character strings;                 *)
(*  - scores are integers: dense similarity, sparse similarity and title   *)
(*    boost in ten-thousandths (10000 = 1.0), the final score in           *)
(*    hundred-thousandths, so that 0.5*d + 0.3*s + t is 5*d + 3*s + 10*t;  *)
(*    a sparse similarity is within 0.0003 of the floating-point value;    *)
(*  - a value pandas holds as NaN (a key absent from one JSON object but   *)
(*    present in another) is NaNText / NaNList / NaNId;                    *)
(*  - Python None is a record with some = FALSE.                           *)
(***************************************************************************)
EXTENDS Integers, Sequences, FiniteSets, TLC

VARIABLES
    dataFile,    \* data/processed/merged_manhua.json
    indexFile,   \* data/processed/manhua.index
    modelFile,   \* data/processed/recommender.pkl
    model,       \* the pretrained sentence-embedding model (fixed weights)
    inst,        \* the ManhuaRecommender object of the running process
    last,        \* the most recent call and what it returned
    changes,     \* how often the catalog file has been rewritten
    proc         \* the running entry point and where it is

vars == <<dataFile, indexFile, modelFile, model, inst, last, changes, proc>>

-----------------------------------------------------------------------------
(* Bounds *)

MaxCatalog == 2
MaxTopK == 2
MaxChanges == 1

(* Program constants *)

K_CANDIDATES == 200
\* Scores are fixed-point numbers: the dense similarity, the sparse
\* similarity and the title boost in ten-thousandths, the final score in
\* hundred-thousandths (the weights 0.5 and 0.3 are 5 and 3 tenths).
W_DENSE == 5
W_SPARSE == 3
BOOST_DIRECT == 5000
BOOST_KEYWORD == 2000
SCORE_CAP == 100000
MIN_KEYWORD_LEN == 3
STRONG_SPARSE == 4000

-----------------------------------------------------------------------------
(* Python str operations *)

Min(a, b) == IF a <= b THEN a ELSE b

LowerChar(c) ==
    CASE c = "S" -> "s" [] c = "O" -> "o" [] c = "L" -> "l"
      [] c = "M" -> "m" [] c = "H" -> "h" [] c = "T" -> "t"
      [] OTHER -> c

\* str.lower()
Lower(s) == [i \in 1..Len(s) |-> LowerChar(s[i])]

\* `a in b` for two str
Contains(b, a) ==
    \E i \in 0..(Len(b) - Len(a)) : SubSeq(b, i + 1, i + Len(a)) = a

IsSpace(c) == c = " "

\* str.split(): the maximal runs of non-whitespace characters, in order
RECURSIVE SplitFrom(_, _, _)
SplitFrom(s, i, cur) ==
    IF i > Len(s)
    THEN IF cur = <<>> THEN <<>> ELSE <<cur>>
    ELSE IF IsSpace(s[i])
         THEN (IF cur = <<>> THEN <<>> ELSE <<cur>>) \o SplitFrom(s, i + 1, <<>>)
         ELSE SplitFrom(s, i + 1, Append(cur, s[i]))

Split(s) == SplitFrom(s, 1, <<>>)

\* " ".join(list)
RECURSIVE Join(_)
Join(l) ==
    IF l = <<>> THEN <<>>
    ELSE IF Len(l) = 1 THEN l[1]
    ELSE l[1] \o <<" ">> \o Join(Tail(l))

SeqToSet(s) == {s[i] : i \in 1..Len(s)}

-----------------------------------------------------------------------------
(* Values pandas substitutes for a key missing from one record *)

NaNText == <<"NaN">>
NaNList == <<NaNText>>
NaNId == "NaN"


-----------------------------------------------------------------------------
(* The strings the catalogs and queries are made of *)

s_Solo == <<"S", "o", "l", "o">>
s_solo == <<"s", "o", "l", "o">>
s_SOLO == <<"S", "O", "L", "O">>
s_sol == <<"s", "o", "l">>
s_Max == <<"M", "a", "x">>
s_max == <<"m", "a", "x">>
s_Hero == <<"H", "e", "r", "o">>
s_hero == <<"h", "e", "r", "o">>
s_the == <<"t", "h", "e">>
s_SoloMax == s_Solo \o <<" ">> \o s_Max
s_heromax == s_hero \o <<" ">> \o s_max
s_empty == <<>>
s_solo_padded == <<" ">> \o s_solo

(* Catalog entries: the JSON objects of merged_manhua.json.  cover_art,    *)
(* official_en_link and year are only copied to the result and are left    *)
(* out.                                                                    *)

EA == [id |-> "a", title |-> s_Solo, alt_titles |-> <<>>,
       tags |-> <<s_hero>>, description |-> s_the \o <<" ">> \o s_solo \o <<" ">> \o s_hero]
EB == [id |-> "b", title |-> s_SoloMax, alt_titles |-> <<>>,
       tags |-> <<>>, description |-> s_max]
EC == [id |-> "c", title |-> s_Max, alt_titles |-> <<s_Solo>>,
       tags |-> <<s_hero>>, description |-> NaNText]
ED == [id |-> "d", title |-> NaNText, alt_titles |-> <<>>,
       tags |-> <<>>, description |-> s_hero]
EE == [id |-> NaNId, title |-> s_Hero, alt_titles |-> <<>>,
       tags |-> <<s_max>>, description |-> s_empty]

\* an entry whose only link to a query is a short alternate title
EF == [id |-> "f", title |-> s_sol, alt_titles |-> <<s_Max>>,
       tags |-> <<>>, description |-> s_hero]

\* an entry whose text holds stop words only
EG == [id |-> "g", title |-> s_the, alt_titles |-> <<>>,
       tags |-> <<>>, description |-> s_empty]

Entries == {EA, EB, EC, ED, EE}

\* Catalog snapshots: sequences of distinct entries, at most n long
CatalogsUpTo(n) ==
    UNION {{c \in [1..m -> Entries] : \A i, j \in 1..m : c[i] = c[j] => i = j}
           : m \in 0..n}

\* sequences of distinct entries of S, at most n long
CatalogsOf(S, n) ==
    UNION {{c \in [1..m -> S] : \A i, j \in 1..m : c[i] = c[j] => i = j}
           : m \in 0..n}

Queries == {s_Solo, s_solo, s_SOLO, s_sol, s_heromax, s_empty}

TopKs == 1..MaxTopK

-----------------------------------------------------------------------------
(* pandas: DataFrame(data) and its columns *)

\* a column exists when at least one record has the key
HasTitleColumn(df) == \E i \in 1..Len(df) : df[i].title # NaNText
HasDescriptionColumn(df) == \E i \in 1..Len(df) : df[i].description # NaNText
HasAltTitlesColumn(df) == \E i \in 1..Len(df) : df[i].alt_titles # NaNList
HasTagsColumn(df) == \E i \in 1..Len(df) : df[i].tags # NaNList
HasIdColumn(df) == \E i \in 1..Len(df) : df[i].id # NaNId

\* df['description'].fillna("")
FillDescription(df) ==
    [i \in 1..Len(df) |->
        [df[i] EXCEPT !.description =
            IF df[i].description = NaNText THEN s_empty ELSE df[i].description]]

\* one row of df['combined_text']: NaN + str is NaN, and .fillna("") makes
\* the whole text of that row empty
CombinedText(e) ==
    IF e.title = NaNText \/ e.description = NaNText
    THEN s_empty
    ELSE e.title \o <<" ">> \o e.title \o <<" ">> \o Join(e.alt_titles)
         \o <<" ">> \o Join(e.tags) \o <<" ">> \o e.description

\* the expression of fit() raises: a column is missing (KeyError) or a
\* NaN is handed to " ".join (TypeError)
CombinedTextRaises(df) ==
    \/ ~HasTitleColumn(df)
    \/ ~HasAltTitlesColumn(df)
    \/ ~HasTagsColumn(df)
    \/ ~HasDescriptionColumn(df)
    \/ \E i \in 1..Len(df) : df[i].alt_titles = NaNList \/ df[i].tags = NaNList

CombinedTexts(df) == [i \in 1..Len(df) |-> CombinedText(df[i])]

-----------------------------------------------------------------------------
(* The sentence-embedding model and the FAISS inner-product index.         *)
(* The pretrained weights are an input of the program: `model` maps the    *)
(* hash bucket of a text to the direction of its L2-normalised embedding,  *)
(* one of four unit vectors 90 degrees apart, and the inner product of     *)
(* two embeddings is the cosine of the angle between them.  The order in   *)
(* which the index search returns rows of equal inner product, and which   *)
(* of them it keeps when the pool is full, are the FAISS build's and not   *)
(* the program's: they are an input as well, `model.ties`.                 *)

Directions == {0, 1, 2, 3}
Buckets == {0, 1, 2}
TieOrders == {"ascending", "descending"}

CharCode(c) ==
    CASE c = " " -> 0
      [] c \in {"s", "a", "t"} -> 1
      [] c \in {"o", "x", "h"} -> 2
      [] c \in {"l", "m", "e"} -> 3
      [] c \in {"r", "S", "M"} -> 4
      [] c \in {"O", "L", "H"} -> 5
      [] OTHER -> 6

RECURSIVE CharSum(_)
CharSum(s) == IF s = <<>> THEN 0 ELSE CharCode(s[1]) + CharSum(Tail(s))

TextHash(s) == (CharSum(s) + Len(s)) % Cardinality(Buckets)

Models == [embed : [Buckets -> Directions], ties : TieOrders]

\* self.model.encode(text) followed by faiss.normalize_L2
Encode(m, text) == m.embed[TextHash(text)]

\* inner product of two normalised embeddings, in ten-thousandths
InnerProduct(a, b) ==
    CASE (a - b) % 4 = 0 -> 10000
      [] (a - b) % 4 = 2 -> -10000
      [] OTHER -> 0

\* the largest of a non-empty set of numbers
Max(S) == CHOOSE x \in S : \A y \in S : y <= x

\* Positions 0..n-1 of the index rows ordered by descending inner product
\* with the query embedding; rows of equal product in the order `ties`,
\* ascending or descending position.  DenseLevels takes the products from
\* the highest down and lists, for each, the positions that have it.
RECURSIVE DenseLevels(_, _, _, _)
DenseLevels(ties, rows, qe, levels) ==
    IF levels = {} THEN <<>>
    ELSE LET top == Max(levels)
             n == Len(rows)
             AtTop(p) == InnerProduct(rows[p + 1], qe) = top
             positions == IF ties = "ascending"
                          THEN [p \in 1..n |-> p - 1]
                          ELSE [p \in 1..n |-> n - p]
         IN  SelectSeq(positions, AtTop)
                 \o DenseLevels(ties, rows, qe, levels \ {top})

DenseOrder(ties, rows, qe) ==
    DenseLevels(ties, rows, qe,
                {InnerProduct(rows[p], qe) : p \in 1..Len(rows)})

\* D, I = self.index.search(query_embedding, k): k (position, similarity)
\* pairs; positions past the index size are the sentinel -1.
IndexSearch(ties, rows, qe, k) ==
    LET order == DenseOrder(ties, rows, qe)
    IN  [r \in 1..k |->
            IF r <= Len(order)
            THEN [idx |-> order[r], d |-> InnerProduct(rows[order[r] + 1], qe)]
            ELSE [idx |-> -1, d |-> -10000]]

-----------------------------------------------------------------------------
(* scikit-learn TfidfVectorizer(stop_words='english') and                  *)
(* cosine_similarity.  A token is a lowercased run of two or more word     *)
(* characters that is no stop word.  The weight of a term in a document    *)
(* is its count times idf = ln((1 + n) / (1 + df)) + 1, and every row is   *)
(* L2-normalised.  Numbers are fixed-point: logarithms in hundred-         *)
(* thousandths, idf in thousandths, normalised weights and similarities    *)
(* in ten-thousandths.                                                     *)

StopWords == {s_the}

RECURSIVE FilterTokens(_)
FilterTokens(ws) ==
    IF ws = <<>> THEN <<>>
    ELSE IF Len(ws[1]) >= 2 /\ ws[1] \notin StopWords
         THEN <<ws[1]>> \o FilterTokens(Tail(ws))
         ELSE FilterTokens(Tail(ws))

\* the analyzer: lowercase, tokenise, drop stop words
Tokens(text) == FilterTokens(Split(Lower(text)))

\* a vectorizer that was never fitted
Unfitted == [fitted |-> FALSE, vocabulary |-> {}, idf |-> <<>>]

\* the analyzer applied to every document
Analyze(texts) == [i \in 1..Len(texts) |-> Tokens(texts[i])]

\* vocabulary learned by fit_transform from the analysed documents
Vocabulary(docs) == UNION {SeqToSet(docs[i]) : i \in 1..Len(docs)}

\* fit_transform raises ValueError("empty vocabulary")
TfidfFitRaises(docs) == Vocabulary(docs) = {}

Count(toks, w) == Cardinality({i \in 1..Len(toks) : toks[i] = w})

\* number of documents that hold the term
DocFreq(docs, w) ==
    Cardinality({i \in 1..Len(docs) : \E j \in 1..Len(docs[i]) : docs[i][j] = w})

\* atanh(z) = z + z^3/3 + z^5/5 + ... for 0 <= z <= 1/3, z and the result
\* in hundred-thousandths
Atanh(z) ==
    LET z2 == (z * z) \div 100000
        p3 == (z * z2) \div 100000
        p5 == (p3 * z2) \div 100000
        p7 == (p5 * z2) \div 100000
        p9 == (p7 * z2) \div 100000
        p11 == (p9 * z2) \div 100000
    IN  z + p3 \div 3 + p5 \div 5 + p7 \div 7 + p9 \div 9 + p11 \div 11

\* ln(k) for an integer k >= 1, in hundred-thousandths:
\* k = 2^e * m with 1 <= m < 2, ln(k) = e * ln(2) + 2 * atanh((m-1)/(m+1))
Ln(k) ==
    LET e == CHOOSE x \in 0..20 : 2^x <= k /\ k < 2^(x + 1)
        ln2 == 2 * Atanh(100000 \div 3)
    IN  e * ln2 + 2 * Atanh(((k - 2^e) * 100000) \div (k + 2^e))

\* idf of a term held by df of n documents (smooth_idf), in thousandths,
\* rounded
Idf(n, df) == (Ln(1 + n) - Ln(1 + df) + 100000 + 50) \div 100

\* idf_ of the fitted vectorizer: one weight per term of the vocabulary
IdfOf(vocab, docs) ==
    [w \in vocab |-> Idf(Len(docs), DocFreq(docs, w))]

RECURSIVE SumOver(_, _)
SumOver(f, S) ==
    IF S = {} THEN 0
    ELSE LET w == CHOOSE x \in S : TRUE
         IN  f[w] + SumOver(f, S \ {w})

Dot(u, v) == SumOver([w \in DOMAIN u |-> u[w] * v[w]], DOMAIN u)

\* the largest n in lo..hi with n * n <= x
RECURSIVE RootBetween(_, _, _)
RootBetween(lo, hi, x) ==
    IF lo >= hi THEN lo
    ELSE LET mid == (lo + hi + 1) \div 2
         IN  IF mid * mid <= x
             THEN RootBetween(mid, hi, x)
             ELSE RootBetween(lo, mid - 1, x)

\* the L2 norm of a weight vector, rounded to the nearest integer
Norm(u) ==
    LET x == Dot(u, u)
        r == RootBetween(0, 46340, x)
    IN  IF x - r * r > r THEN r + 1 ELSE r

\* a sparse row of transform / fit_transform: term -> count * idf over the
\* vocabulary, divided by its L2 norm (ten-thousandths); a document with
\* no term of the vocabulary is the zero row
TfidfRow(idf, toks) ==
    LET u == [w \in DOMAIN idf |-> Count(toks, w) * idf[w]]
        norm == Norm(u)
    IN  [w \in DOMAIN idf |->
            IF norm = 0 THEN 0 ELSE (u[w] * 10000 + norm \div 2) \div norm]

TfidfMatrix(idf, docs) == [i \in 1..Len(docs) |-> TfidfRow(idf, docs[i])]

\* cosine_similarity of two rows of the vectorizer: their product, as both
\* have norm 1 already (the division by the norms that cosine_similarity
\* repeats changes nothing beyond rounding); ten-thousandths, rounded
Cosine(q, row) == (Dot(q, row) + 5000) \div 10000

\* query_tfidf = self.tfidf.transform([query.lower()])
QueryTfidf(tfidf, query) == TfidfRow(tfidf.idf, Tokens(Lower(query)))

\* cosine_similarity(query_tfidf, row)[0][0]
SparseScore(query_tfidf, row) == Cosine(query_tfidf, row)

-----------------------------------------------------------------------------
(* ManhuaRecommender.recommend: scoring of one candidate *)

\* any(word in title_lower.split() or word in alt_titles_lower.split()
\*     for word in query_words if len(word) > 3)
KeywordMatch(query_words, title_lower, alt_titles_lower) ==
    \E word \in query_words :
        /\ Len(word) > MIN_KEYWORD_LEN
        /\ \/ word \in SeqToSet(Split(title_lower))
           \/ word \in SeqToSet(Split(alt_titles_lower))

\* a title match that never looks at the alternate titles
TitleBoost_title_only(query, title, alt_titles) ==
    LET title_lower == Lower(title)
        query_lower == Lower(query)
        query_words == SeqToSet(Split(Lower(query)))
    IN  IF Contains(title_lower, query_lower)
        THEN BOOST_DIRECT
        ELSE IF KeywordMatch(query_words, title_lower, s_empty)
             THEN BOOST_KEYWORD
             ELSE 0

\* a title match that compares the title as stored, without lower-casing it
TitleBoost_case_sensitive(query, title, alt_titles) ==
    LET alt_titles_lower == Join([i \in 1..Len(alt_titles) |-> Lower(alt_titles[i])])
        query_lower == Lower(query)
        query_words == SeqToSet(Split(Lower(query)))
    IN  IF Contains(title, query_lower) \/ Contains(alt_titles_lower, query_lower)
        THEN BOOST_DIRECT
        ELSE IF KeywordMatch(query_words, title, alt_titles_lower)
             THEN BOOST_KEYWORD
             ELSE 0

\* the title matching bonus, in ten-thousandths
TitleBoost(query, title, alt_titles) ==
    LET title_lower == Lower(title)
        alt_titles_lower == Join([i \in 1..Len(alt_titles) |-> Lower(alt_titles[i])])
        query_lower == Lower(query)
        query_words == SeqToSet(Split(Lower(query)))
    IN  IF Contains(title_lower, query_lower) \/ Contains(alt_titles_lower, query_lower)
        THEN BOOST_DIRECT
        ELSE IF KeywordMatch(query_words, title_lower, alt_titles_lower)
             THEN BOOST_KEYWORD
             ELSE 0

\* the weighted blend without the cap of line 138
FinalScore_uncapped(dense_score, sparse_score, title_boost) ==
    dense_score * W_DENSE + sparse_score * W_SPARSE + title_boost * 10

\* final hybrid score, capped at 1.0 (hundred-thousandths)
FinalScore(dense_score, sparse_score, title_boost) ==
    Min(dense_score * W_DENSE + sparse_score * W_SPARSE + title_boost * 10,
        SCORE_CAP)

\* the reason shown with a result; the labels are written here without
\* the pictograph the code puts in front of each
MatchReason(title_boost, sparse_score) ==
    IF title_boost >= BOOST_DIRECT THEN "Direct Title Match"
    ELSE IF title_boost > 0 THEN "Title Keyword Match"
    ELSE IF sparse_score > STRONG_SPARSE THEN "Strong Keyword Match"
    ELSE "Matches plot vibe"

\* the elements of rs from the highest score down; elements of one score
\* in the order they have in rs
RECURSIVE ScoreLevels(_, _)
ScoreLevels(rs, levels) ==
    IF levels = {} THEN <<>>
    ELSE LET top == Max(levels)
             AtTop(x) == x.score = top
         IN  SelectSeq(rs, AtTop) \o ScoreLevels(rs, levels \ {top})

\* a sort that is not stable: equal scores end up in reverse order
SortByScore_unstable(rs) ==
    LET reversed == [i \in 1..Len(rs) |-> rs[Len(rs) + 1 - i]]
    IN  ScoreLevels(reversed, {rs[i].score : i \in 1..Len(rs)})

\* final_results.sort(key=lambda x: x['score'], reverse=True): a stable
\* sort, so results of equal score keep the order they were appended in
SortByScore(rs) == ScoreLevels(rs, {rs[i].score : i \in 1..Len(rs)})

\* a slice that is one result too long
Truncate_one_more(rs, top_k) == SubSeq(rs, 1, Min(top_k + 1, Len(rs)))

\* final_results[:top_k] for top_k >= 0
Truncate(rs, top_k) == SubSeq(rs, 1, Min(top_k, Len(rs)))

-----------------------------------------------------------------------------
(* ManhuaRecommender objects and the two persisted artifacts *)

\* The installed scikit-learn is an input of the process; src/ pins no
\* version.  Releases differ in where TfidfVectorizer builds its
\* TfidfTransformer: in __init__ ("tfidf_in_init"), or at the start of every
\* fit_transform ("tfidf_in_fit"), where a fit_transform that raises has
\* already thrown the fitted transformer away.  The two behave alike until
\* fit_transform raises on a fitted vectorizer; an object records which one
\* it runs on (sklearn) from that call on, and "unknown" before it.
SklearnBuilds == {"tfidf_in_init", "tfidf_in_fit"}


NoRows == [some |-> FALSE, v |-> <<>>]
Rows(x) == [some |-> TRUE, v |-> x]

\* no object: the constructor has not run, or it raised
NotConstructed ==
    [alive |-> FALSE, sklearn |-> "unknown", df |-> <<>>, combined_text |-> FALSE,
     index |-> NoRows, tfidf |-> Unfitted, tfidf_matrix |-> NoRows,
     embeddings |-> NoRows]

AbsentIndex == [state |-> "absent", rows |-> <<>>]
\* manhua.index opened for writing (truncated) but never completed
CorruptIndex == [state |-> "corrupt", rows |-> <<>>]
AbsentModel ==
    [state |-> "absent", tfidf |-> Unfitted, tfidf_matrix |-> NoRows,
     embeddings |-> NoRows]
\* recommender.pkl opened for writing (truncated) but never completed
CorruptModel ==
    [state |-> "corrupt", tfidf |-> Unfitted, tfidf_matrix |-> NoRows,
     embeddings |-> NoRows]

\* where an operation of fit()/save() can fail for reasons outside the
\* program (encoder out of memory, disk full, no write permission)
\* "write_index" is faiss.write_index failing to open the file, which
\* leaves it as it was; "truncate_index" is it failing after the open
FailPoints ==
    {"none", "encode", "write_index", "truncate_index", "open_model", "dump"}

\* merged_manhua.json holding the whole JSON text of a catalog
CatalogFile(c) == [state |-> "complete", rows |-> c]
\* merged_manhua.json opened for writing (truncated) and not yet closed:
\* empty, or a strict prefix of the JSON text
PartialCatalog == [state |-> "partial", rows |-> <<>>]

\* __init__: json.load (raises on a partial file), DataFrame, description
\* fillna; the indices unset
Construct_op(file) ==
    IF file.state = "partial" \/ ~HasDescriptionColumn(file.rows)
    THEN [outcome |-> "raised", inst |-> NotConstructed]
    ELSE [outcome |-> "ok",
          inst |-> [alive |-> TRUE, sklearn |-> "unknown",
                    df |-> FillDescription(file.rows),
                    combined_text |-> FALSE, index |-> NoRows,
                    tfidf |-> Unfitted, tfidf_matrix |-> NoRows,
                    embeddings |-> NoRows]]

\* save(): the index file first, then the pickle
Save_op(I, fail, idxF, mdlF) ==
    IF ~I.index.some \/ fail = "write_index"
    THEN [outcome |-> "raised", inst |-> I, indexFile |-> idxF, modelFile |-> mdlF]
    ELSE IF fail = "truncate_index"
    THEN [outcome |-> "raised", inst |-> I,
          indexFile |-> CorruptIndex, modelFile |-> mdlF]
    ELSE LET idxF2 == [state |-> "present", rows |-> I.index.v]
         IN  IF fail = "open_model"
             THEN [outcome |-> "raised", inst |-> I,
                   indexFile |-> idxF2, modelFile |-> mdlF]
             ELSE IF fail = "dump"
             THEN [outcome |-> "raised", inst |-> I,
                   indexFile |-> idxF2, modelFile |-> CorruptModel]
             ELSE [outcome |-> "ok", inst |-> I,
                   indexFile |-> idxF2,
                   modelFile |-> [state |-> "present", tfidf |-> I.tfidf,
                                  tfidf_matrix |-> I.tfidf_matrix,
                                  embeddings |-> I.embeddings]]

\* fit() would reach fit_transform with a fitted vectorizer and a catalog
\* of no vocabulary: the one call the two builds answer differently
BuildShows(I) ==
    /\ I.tfidf.fitted
    /\ ~CombinedTextRaises(I.df)
    /\ TfidfFitRaises(Analyze(CombinedTexts(I.df)))

\* the builds an object may be running on, as far as its next fit() can
\* tell them apart
BuildsOf(I) ==
    IF I.sklearn # "unknown" THEN {I.sklearn}
    ELSE IF BuildShows(I) THEN SklearnBuilds
    ELSE {"tfidf_in_init"}

\* a fit that writes the index file as soon as the index is built, before
\* the TF-IDF model is fitted
Fit_op_index_written_early(I, build, m, fail, idxF, mdlF) ==
    IF CombinedTextRaises(I.df)
    THEN [outcome |-> "raised", inst |-> I, indexFile |-> idxF, modelFile |-> mdlF]
    ELSE
    LET texts == CombinedTexts(I.df)
        I1 == [I EXCEPT !.combined_text = TRUE]
        emb == [i \in 1..Len(texts) |-> Encode(m, texts[i])]
        I3 == [I1 EXCEPT !.embeddings = Rows(emb), !.index = Rows(emb)]
        docs == Analyze(texts)
        vocab == Vocabulary(docs)
        idf == IdfOf(vocab, docs)
        I4 == [I3 EXCEPT !.tfidf = [fitted |-> TRUE, vocabulary |-> vocab,
                                    idf |-> idf],
                         !.tfidf_matrix = Rows(TfidfMatrix(idf, docs))]
        \* the instance after fit_transform has raised
        I3r == IF ~I.tfidf.fitted THEN I3
               ELSE IF build = "tfidf_in_fit"
               THEN [I3 EXCEPT !.sklearn = build,
                               !.tfidf = [fitted |-> FALSE,
                                          vocabulary |-> I.tfidf.vocabulary,
                                          idf |-> <<>>]]
               ELSE [I3 EXCEPT !.sklearn = build]
    IN  IF fail = "encode"
        THEN [outcome |-> "raised", inst |-> I1, indexFile |-> idxF, modelFile |-> mdlF]
        ELSE IF TfidfFitRaises(docs)
        THEN [outcome |-> "raised", inst |-> I3r,
              indexFile |-> [state |-> "present", rows |-> emb],
              modelFile |-> mdlF]
        ELSE Save_op(I4, fail, idxF, mdlF)

\* fit(): combined text, embeddings, FAISS index, TF-IDF, then save().
\* When fit_transform raises (empty vocabulary), self.tfidf_matrix keeps
\* its value and the vectorizer keeps its vocabulary; whether it keeps its
\* fitted transformer depends on the installed scikit-learn.
Fit_op(I, build, m, fail, idxF, mdlF) ==
    IF CombinedTextRaises(I.df)
    THEN [outcome |-> "raised", inst |-> I, indexFile |-> idxF, modelFile |-> mdlF]
    ELSE
    LET texts == CombinedTexts(I.df)
        I1 == [I EXCEPT !.combined_text = TRUE]
        emb == [i \in 1..Len(texts) |-> Encode(m, texts[i])]
        I3 == [I1 EXCEPT !.embeddings = Rows(emb), !.index = Rows(emb)]
        docs == Analyze(texts)
        vocab == Vocabulary(docs)
        idf == IdfOf(vocab, docs)
        I4 == [I3 EXCEPT !.tfidf = [fitted |-> TRUE, vocabulary |-> vocab,
                                    idf |-> idf],
                         !.tfidf_matrix = Rows(TfidfMatrix(idf, docs))]
        \* the instance after fit_transform has raised
        I3r == IF ~I.tfidf.fitted THEN I3
               ELSE IF build = "tfidf_in_fit"
               THEN [I3 EXCEPT !.sklearn = build,
                               !.tfidf = [fitted |-> FALSE,
                                          vocabulary |-> I.tfidf.vocabulary,
                                          idf |-> <<>>]]
               ELSE [I3 EXCEPT !.sklearn = build]
    IN  IF fail = "encode"
        THEN [outcome |-> "raised", inst |-> I1, indexFile |-> idxF, modelFile |-> mdlF]
        ELSE IF TfidfFitRaises(docs)
        THEN [outcome |-> "raised", inst |-> I3r, indexFile |-> idxF, modelFile |-> mdlF]
        ELSE Save_op(I4, fail, idxF, mdlF)

\* a load that leaves the sparse matrix of the pickle behind
Load_op_without_matrix(I, idxF, mdlF) ==
    IF idxF.state = "absent" \/ mdlF.state = "absent"
    THEN [outcome |-> "false", inst |-> I]
    ELSE IF idxF.state = "corrupt"
    THEN [outcome |-> "raised", inst |-> I]
    ELSE LET I1 == [I EXCEPT !.index = Rows(idxF.rows)]
         IN  IF mdlF.state = "corrupt"
             THEN [outcome |-> "raised", inst |-> I1]
             ELSE [outcome |-> "true",
                   inst |-> [I1 EXCEPT !.tfidf = mdlF.tfidf,
                                       !.embeddings = mdlF.embeddings]]

\* a load that gives up only when both artifacts are missing, and
\* otherwise reads whatever is there
Load_op_both_missing(I, idxF, mdlF) ==
    IF idxF.state = "absent" /\ mdlF.state = "absent"
    THEN [outcome |-> "false", inst |-> I]
    ELSE IF idxF.state # "present"
    THEN [outcome |-> "raised", inst |-> I]
    ELSE LET I1 == [I EXCEPT !.index = Rows(idxF.rows)]
         IN  IF mdlF.state # "present"
             THEN [outcome |-> "raised", inst |-> I1]
             ELSE [outcome |-> "true",
                   inst |-> [I1 EXCEPT !.tfidf = mdlF.tfidf,
                                       !.tfidf_matrix = mdlF.tfidf_matrix,
                                       !.embeddings = mdlF.embeddings]]

\* load(): False when an artifact is missing; otherwise the index is read
\* first (read_index raises on a truncated file, before anything is
\* assigned) and the pickle after it
Load_op(I, idxF, mdlF) ==
    IF idxF.state = "absent" \/ mdlF.state = "absent"
    THEN [outcome |-> "false", inst |-> I]
    ELSE IF idxF.state = "corrupt"
    THEN [outcome |-> "raised", inst |-> I]
    ELSE LET I1 == [I EXCEPT !.index = Rows(idxF.rows)]
         IN  IF mdlF.state = "corrupt"
             THEN [outcome |-> "raised", inst |-> I1]
             ELSE [outcome |-> "true",
                   inst |-> [I1 EXCEPT !.tfidf = mdlF.tfidf,
                                       !.tfidf_matrix = mdlF.tfidf_matrix,
                                       !.embeddings = mdlF.embeddings]]

-----------------------------------------------------------------------------
(* ManhuaRecommender.recommend *)

\* the body of the candidate loop raises for the row at position idx:
\* df.iloc out of range, .lower() or iteration of a NaN, an unset or too
\* short sparse matrix, a sparse row of another vocabulary, a missing column
CandidateRaises(I, idx) ==
    \/ idx >= Len(I.df)
    \/ I.df[idx + 1].title = NaNText
    \/ I.df[idx + 1].alt_titles = NaNList /\ HasAltTitlesColumn(I.df)
    \/ ~I.tfidf_matrix.some
    \/ idx >= Len(I.tfidf_matrix.v)
    \/ DOMAIN I.tfidf_matrix.v[idx + 1] # I.tfidf.vocabulary
    \/ ~HasIdColumn(I.df)
    \/ ~HasTagsColumn(I.df)

\* item.get('alt_titles', [])
AltTitlesOf(I, idx) ==
    IF HasAltTitlesColumn(I.df) THEN I.df[idx + 1].alt_titles ELSE <<>>

\* one entry of final_results.  pos and rank are the candidate's catalog
\* position and its rank in the dense search; the dict of the program
\* does not carry them, they are kept to state order properties.
ScoreCandidate(I, query, query_tfidf, rank, cand) ==
    LET item == I.df[cand.idx + 1]
        dense_score == cand.d
        sparse_score == SparseScore(query_tfidf, I.tfidf_matrix.v[cand.idx + 1])
        title_boost == TitleBoost(query, item.title, AltTitlesOf(I, cand.idx))
    IN  [id |-> item.id, title |-> item.title,
         score |-> FinalScore(dense_score, sparse_score, title_boost),
         dense_score |-> dense_score, sparse_score |-> sparse_score,
         title_boost |-> title_boost,
         match_reason |-> MatchReason(title_boost, sparse_score),
         pos |-> cand.idx, rank |-> rank - 1]

\* the candidates that are not the sentinel, in rank order
ScoreAll(I, query, cands) ==
    LET Kept(r) == cands[r].idx # -1
        ranks == SelectSeq([r \in 1..Len(cands) |-> r], Kept)
        query_tfidf == QueryTfidf(I.tfidf, query)
    IN  [i \in 1..Len(ranks) |->
            ScoreCandidate(I, query, query_tfidf, ranks[i], cands[ranks[i]])]

\* a candidate pool that is the whole catalog
KCandidates_whole_catalog(I) == Len(I.df)

\* k_candidates = min(200, len(self.df))
KCandidates(I) == Min(K_CANDIDATES, Len(I.df))

Recommend_op(I, m, query, top_k) ==
    LET k_candidates == KCandidates(I)
    IN  IF k_candidates = 0
        THEN [outcome |-> "ok", result |-> <<>>, encoded |-> TRUE]
        ELSE IF ~I.index.some \/ ~I.tfidf.fitted
        THEN [outcome |-> "raised", result |-> <<>>, encoded |-> TRUE]
        ELSE
        LET cands == IndexSearch(m.ties, I.index.v, Encode(m, query), k_candidates)
        IN  IF \E r \in 1..Len(cands) :
                   cands[r].idx # -1 /\ CandidateRaises(I, cands[r].idx)
            THEN [outcome |-> "raised", result |-> <<>>, encoded |-> TRUE]
            ELSE [outcome |-> "ok",
                  result |-> Truncate(SortByScore(ScoreAll(I, query, cands)), top_k),
                  encoded |-> TRUE]

-----------------------------------------------------------------------------
(* Operations of the program as actions.  `inst` is the ManhuaRecommender  *)
(* object of the running process; constructing again replaces it (a new   *)
(* process, or a new object in the same one).  `proc` is the entry point   *)
(* that is running: "lib" is a caller using the class directly, "main"     *)
(* the script at the end of recommender.py, "app" the Streamlit            *)
(* application.                                                            *)

NoCall(op, outcome) ==
    [op |-> op, outcome |-> outcome, query |-> <<>>, top_k |-> 0,
     result |-> <<>>, encoded |-> FALSE]

Called(query, top_k, r) ==
    [op |-> "recommend", outcome |-> r.outcome, query |-> query,
     top_k |-> top_k, result |-> r.result, encoded |-> r.encoded]

\* load and fit record how the calls made by App.load_model ended
Proc(entry, pc) == [entry |-> entry, pc |-> pc, load |-> "none", fit |-> "none"]

\* rec = ManhuaRecommender()
Construct ==
    LET r == Construct_op(dataFile)
    IN  /\ proc.entry = "lib"
        /\ inst' = r.inst
        /\ last' = NoCall("construct", r.outcome)
        /\ UNCHANGED <<dataFile, indexFile, modelFile, model, changes, proc>>

Fit(build, fail) ==
    LET r == Fit_op(inst, build, model, fail, indexFile, modelFile)
    IN  /\ proc.entry = "lib"
        /\ inst.alive
        /\ inst' = r.inst
        /\ indexFile' = r.indexFile
        /\ modelFile' = r.modelFile
        /\ last' = NoCall("fit", r.outcome)
        /\ UNCHANGED <<dataFile, model, changes, proc>>

Load ==
    LET r == Load_op(inst, indexFile, modelFile)
    IN  /\ proc.entry = "lib"
        /\ inst.alive
        /\ inst' = r.inst
        /\ last' = NoCall("load", r.outcome)
        /\ UNCHANGED <<dataFile, indexFile, modelFile, model, changes, proc>>

\* a recommend that refits the vectorizer on the query
\* (fit_transform in place of transform)
Recommend_refits(query, top_k) ==
    LET r == Recommend_op(inst, model, query, top_k)
    IN  /\ proc.entry = "lib"
        /\ inst.alive
        /\ last' = Called(query, top_k, r)
        /\ inst' = [inst EXCEPT !.tfidf =
                       [fitted |-> TRUE,
                        vocabulary |-> Vocabulary(Analyze(<<query>>)),
                        idf |-> IdfOf(Vocabulary(Analyze(<<query>>)),
                                      Analyze(<<query>>))]]
        /\ UNCHANGED <<dataFile, indexFile, modelFile, model, changes, proc>>

\* results = rec.recommend(query, top_k)
Recommend(query, top_k) ==
    LET r == Recommend_op(inst, model, query, top_k)
    IN  /\ proc.entry = "lib"
        /\ inst.alive
        /\ last' = Called(query, top_k, r)
        /\ UNCHANGED <<dataFile, indexFile, modelFile, model, inst, changes, proc>>

\* rec.save(), called by the user of the class
Save(fail) ==
    LET r == Save_op(inst, fail, indexFile, modelFile)
    IN  /\ proc.entry = "lib"
        /\ inst.alive
        /\ indexFile' = r.indexFile
        /\ modelFile' = r.modelFile
        /\ last' = NoCall("save", r.outcome)
        /\ UNCHANGED <<dataFile, model, inst, changes, proc>>

\* merge_datasets of the ETL collaborator rewrites merged_manhua.json in
\* place: open(OUTPUT_FILE, "w") truncates the file ...
ChangeCatalogOpen ==
    /\ proc.entry = "lib"
    /\ changes < MaxChanges
    /\ dataFile.state = "complete"
    /\ dataFile' = PartialCatalog
    /\ changes' = changes + 1
    /\ last' = NoCall("change_catalog", "open")
    /\ UNCHANGED <<indexFile, modelFile, model, inst, proc>>

\* ... and json.dump with the close of the file completes it
ChangeCatalogDump(c) ==
    /\ proc.entry = "lib"
    /\ dataFile.state = "partial"
    /\ dataFile' = CatalogFile(c)
    /\ last' = NoCall("change_catalog", "ok")
    /\ UNCHANGED <<indexFile, modelFile, model, inst, changes, proc>>

Catalogs == CatalogsUpTo(MaxCatalog)

\* the catalogs and queries of the specification of the class's life cycle
LifeEntries == {EA, EB, ED}
LifeCatalogs == {c \in Catalogs : \A i \in 1..Len(c) : c[i] \in LifeEntries}
LifeQueries == {s_SOLO, s_heromax}

\* one choice of pretrained weights and of tie order
DefaultModel == [embed |-> [b \in Buckets |-> b % 4], ties |-> "ascending"]

Init ==
    /\ \E c \in LifeCatalogs : dataFile = CatalogFile(c)
    /\ indexFile = AbsentIndex
    /\ modelFile = AbsentModel
    /\ model = DefaultModel
    /\ inst = NotConstructed
    /\ last = NoCall("none", "ok")
    /\ changes = 0
    /\ proc = Proc("lib", "run")

Next ==
    \/ Construct
    \/ \E build \in BuildsOf(inst), fail \in FailPoints : Fit(build, fail)
    \/ Load
    \/ \E q \in LifeQueries, k \in TopKs : Recommend(q, k)
    \/ \E fail \in {"none", "dump"} : Save(fail)
    \/ ChangeCatalogOpen
    \/ \E c \in LifeCatalogs : ChangeCatalogDump(c)

Spec == Init /\ [][Next]_vars

-----------------------------------------------------------------------------
(* The script at the end of recommender.py: construct, fit, one query.     *)
(* The query and top_k of the script are generalised to the bounded sets.  *)

MainConstruct ==
    LET r == Construct_op(dataFile)
    IN  /\ proc.entry = "main" /\ proc.pc = "start"
        /\ inst' = r.inst
        /\ last' = NoCall("construct", r.outcome)
        /\ proc' = [proc EXCEPT !.pc = IF r.outcome = "ok" THEN "constructed" ELSE "crashed"]
        /\ UNCHANGED <<dataFile, indexFile, modelFile, model, changes>>

MainFit(build, fail) ==
    LET r == Fit_op(inst, build, model, fail, indexFile, modelFile)
    IN  /\ proc.entry = "main" /\ proc.pc = "constructed"
        /\ inst' = r.inst
        /\ indexFile' = r.indexFile
        /\ modelFile' = r.modelFile
        /\ last' = NoCall("fit", r.outcome)
        /\ proc' = [proc EXCEPT !.pc = IF r.outcome = "ok" THEN "fitted" ELSE "crashed"]
        /\ UNCHANGED <<dataFile, model, changes>>

MainRecommend(query, top_k) ==
    LET r == Recommend_op(inst, model, query, top_k)
    IN  /\ proc.entry = "main" /\ proc.pc = "fitted"
        /\ last' = Called(query, top_k, r)
        /\ proc' = [proc EXCEPT !.pc = IF r.outcome = "ok" THEN "done" ELSE "crashed"]
        /\ UNCHANGED <<dataFile, indexFile, modelFile, model, inst, changes>>

\* the catalogs and queries of the script's specification
MainCatalogs == CatalogsOf(Entries \cup {EF}, MaxCatalog)
MainQueries == Queries \cup {s_solo_padded}

MainInit ==
    /\ \E c \in MainCatalogs : dataFile = CatalogFile(c)
    /\ indexFile = AbsentIndex
    /\ modelFile = AbsentModel
    /\ model \in Models
    /\ inst = NotConstructed
    /\ last = NoCall("none", "ok")
    /\ changes = 0
    /\ proc = Proc("main", "start")

MainNext ==
    \/ MainConstruct
    \/ \E build \in BuildsOf(inst), fail \in FailPoints : MainFit(build, fail)
    \/ \E q \in MainQueries, k \in TopKs : MainRecommend(q, k)

MainSpec == MainInit /\ [][MainNext]_vars

-----------------------------------------------------------------------------
(* The Streamlit application: App.load_model (cached by                    *)
(* st.cache_resource), App.run and the search of App.render_discovery.     *)

SLIDER_MIN == 10
SLIDER_DEFAULT == 20
SLIDER_MAX == 100

SliderValues == {SLIDER_MIN, SLIDER_DEFAULT, SLIDER_MAX}

\* a load_model that hands the recommender back when load() found no
\* artifacts, without fitting it
LoadModel_op_without_fit(file, m, fail, idxF, mdlF) ==
    LET c == Construct_op(file)
        l == Load_op(c.inst, idxF, mdlF)
    IN  IF c.outcome = "raised"
        THEN [pc |-> "crashed", load |-> "none", fit |-> "none",
              inst |-> c.inst, indexFile |-> idxF, modelFile |-> mdlF]
        ELSE IF l.outcome = "raised"
        THEN [pc |-> "no_model", load |-> "raised", fit |-> "none",
              inst |-> l.inst, indexFile |-> idxF, modelFile |-> mdlF]
        ELSE [pc |-> "serving", load |-> l.outcome, fit |-> "none",
              inst |-> l.inst, indexFile |-> idxF, modelFile |-> mdlF]

\* load_model(): the constructor runs outside the try block, so what it
\* raises leaves load_model; what load() or fit() raise is caught and None
\* is returned.  pc is "serving" when a recommender is returned.  fit() runs
\* on the vectorizer of the constructor, where the build does not show.
LoadModel_op(file, m, fail, idxF, mdlF) ==
    LET c == Construct_op(file)
        l == Load_op(c.inst, idxF, mdlF)
        f == Fit_op(l.inst, "tfidf_in_init", m, fail, idxF, mdlF)
    IN  IF c.outcome = "raised"
        THEN [pc |-> "crashed", load |-> "none", fit |-> "none",
              inst |-> c.inst, indexFile |-> idxF, modelFile |-> mdlF]
        ELSE IF l.outcome = "raised"
        THEN [pc |-> "no_model", load |-> "raised", fit |-> "none",
              inst |-> l.inst, indexFile |-> idxF, modelFile |-> mdlF]
        ELSE IF l.outcome = "true"
        THEN [pc |-> "serving", load |-> "true", fit |-> "none",
              inst |-> l.inst, indexFile |-> idxF, modelFile |-> mdlF]
        ELSE [pc |-> IF f.outcome = "ok" THEN "serving" ELSE "no_model",
              load |-> "false", fit |-> f.outcome,
              inst |-> f.inst, indexFile |-> f.indexFile, modelFile |-> f.modelFile]

\* App(): the first, uncached call of load_model.  An exception of the
\* constructor is not cached: the next rerun calls it again.
AppLoadModel(fail) ==
    LET r == LoadModel_op(dataFile, model, fail, indexFile, modelFile)
    IN  /\ proc.entry = "app" /\ proc.pc \in {"start", "crashed"}
        /\ inst' = r.inst
        /\ indexFile' = r.indexFile
        /\ modelFile' = r.modelFile
        /\ proc' = [proc EXCEPT !.pc = r.pc, !.load = r.load, !.fit = r.fit]
        /\ last' = NoCall("load_model", IF r.pc = "crashed" THEN "raised" ELSE "ok")
        /\ UNCHANGED <<dataFile, model, changes>>

\* run() with the Discover page and a non-empty search box:
\* rec.recommend(query, top_k=num_results)
AppRecommend(query, top_k) ==
    LET r == Recommend_op(inst, model, query, top_k)
    IN  /\ proc.entry = "app" /\ proc.pc = "serving"
        /\ query # s_empty
        /\ last' = Called(query, top_k, r)
        /\ UNCHANGED <<dataFile, indexFile, modelFile, model, inst, changes, proc>>

\* the artifacts an earlier run of fit() over catalog c left behind; the
\* fit of a new vectorizer is the same under every build
ArtifactsOf(c, m, fail) ==
    LET k == Construct_op(CatalogFile(c))
        f == Fit_op(k.inst, "tfidf_in_init", m, fail, AbsentIndex, AbsentModel)
    IN  IF k.outcome = "ok"
        THEN <<f.indexFile, f.modelFile>>
        ELSE <<AbsentIndex, AbsentModel>>

AppInit ==
    /\ \E c \in Catalogs : dataFile = CatalogFile(c)
    /\ model = DefaultModel
    /\ \E c \in Catalogs, fail \in FailPoints :
          /\ indexFile = ArtifactsOf(c, model, fail)[1]
          /\ modelFile = ArtifactsOf(c, model, fail)[2]
    /\ inst = NotConstructed
    /\ last = NoCall("none", "ok")
    /\ changes = 0
    /\ proc = Proc("app", "start")

AppNext ==
    \/ \E fail \in FailPoints : AppLoadModel(fail)
    \/ \E q \in LifeQueries, k \in SliderValues : AppRecommend(q, k)

AppSpec == AppInit /\ [][AppNext]_vars

-----------------------------------------------------------------------------
(* A process that starts over the artifacts an earlier run left behind,    *)
(* complete or not, and constructs, fits and loads.                        *)

RefitCatalogs == CatalogsOf(LifeEntries \cup {EG}, MaxCatalog)

RefitInit ==
    /\ \E c \in RefitCatalogs : dataFile = CatalogFile(c)
    /\ model = DefaultModel
    /\ \E c \in LifeCatalogs, fail \in FailPoints :
          /\ indexFile = ArtifactsOf(c, model, fail)[1]
          /\ modelFile = ArtifactsOf(c, model, fail)[2]
    /\ inst = NotConstructed
    /\ last = NoCall("none", "ok")
    /\ changes = 0
    /\ proc = Proc("lib", "run")

RefitNext ==
    \/ Construct
    \/ \E build \in BuildsOf(inst), fail \in FailPoints : Fit(build, fail)
    \/ \E fail \in {"none", "dump"} : Save(fail)
    \/ Load

RefitSpec == RefitInit /\ [][RefitNext]_vars

-----------------------------------------------------------------------------
(* Concurrent recommend calls on one fitted recommender: the sessions of   *)
(* the Streamlit server share the object load_model cached.  A call is     *)
(* split at the points where it reads the shared object; what it computes  *)
(* in between is local to the call.                                        *)

Threads == {1, 2}

Idle == [pc |-> "idle", query |-> s_empty, top_k |-> 0, qe |-> 0,
         cands |-> <<>>, results |-> <<>>]

\* line 93-94: the query is encoded
CallBegin(t, query, top_k) ==
    /\ proc.entry = "threads"
    /\ proc.calls[t].pc = "idle"
    /\ proc' = [proc EXCEPT !.calls[t] =
                    [pc |-> "encoded", query |-> query, top_k |-> top_k,
                     qe |-> Encode(model, query), cands |-> <<>>,
                     results |-> <<>>]]
    /\ UNCHANGED <<dataFile, indexFile, modelFile, model, inst, last, changes>>

\* a search that takes the query embedding from an attribute of the shared
\* object, where the call that began last has put its own
CallSearch_shared_embedding(t) ==
    LET other == CHOOSE u \in Threads : u # t
        qe == IF proc.calls[other].pc = "idle"
              THEN proc.calls[t].qe
              ELSE proc.calls[other].qe
    IN  /\ proc.entry = "threads"
        /\ proc.calls[t].pc = "encoded"
        /\ proc' = [proc EXCEPT
                       !.calls[t].pc = "searched",
                       !.calls[t].cands =
                           IndexSearch(model.ties, inst.index.v, qe,
                                       KCandidates(inst))]
        /\ UNCHANGED <<dataFile, indexFile, modelFile, model, inst, last, changes>>

\* line 97-103: the dense search over self.index
CallSearch(t) ==
    /\ proc.entry = "threads"
    /\ proc.calls[t].pc = "encoded"
    /\ proc' = [proc EXCEPT
                   !.calls[t].pc = "searched",
                   !.calls[t].cands =
                       IndexSearch(model.ties, inst.index.v,
                                   proc.calls[t].qe, KCandidates(inst))]
    /\ UNCHANGED <<dataFile, indexFile, modelFile, model, inst, last, changes>>

\* line 106-162: the candidates are scored against self.df, self.tfidf
\* and self.tfidf_matrix; an exception ends the call
CallScore(t) ==
    LET c == proc.calls[t]
        raises == \E r \in 1..Len(c.cands) :
                      c.cands[r].idx # -1 /\ CandidateRaises(inst, c.cands[r].idx)
    IN  /\ proc.entry = "threads"
        /\ c.pc = "searched"
        /\ IF raises
           THEN /\ proc' = [proc EXCEPT !.calls[t] = Idle]
                /\ last' = Called(c.query, c.top_k,
                                  [outcome |-> "raised", result |-> <<>>,
                                   encoded |-> TRUE])
           ELSE /\ proc' = [proc EXCEPT
                               !.calls[t].pc = "scored",
                               !.calls[t].results =
                                   ScoreAll(inst, c.query, c.cands)]
                /\ UNCHANGED last
        /\ UNCHANGED <<dataFile, indexFile, modelFile, model, inst, changes>>

\* line 165-166: the call's own list is sorted, cut and returned
CallReturn(t) ==
    LET c == proc.calls[t]
    IN  /\ proc.entry = "threads"
        /\ c.pc = "scored"
        /\ proc' = [proc EXCEPT !.calls[t] = Idle]
        /\ last' = Called(c.query, c.top_k,
                          [outcome |-> "ok",
                           result |-> Truncate(SortByScore(c.results), c.top_k),
                           encoded |-> TRUE])
        /\ UNCHANGED <<dataFile, indexFile, modelFile, model, inst, changes>>

\* the catalogs of the shared recommender; only those the constructor and
\* fit() accept give one
ConcCatalogs == CatalogsOf({EA, EB, EC}, MaxCatalog) \ {<<>>}

ConcInit ==
    /\ \E c \in ConcCatalogs : dataFile = CatalogFile(c)
    /\ model = DefaultModel
    /\ LET k == Construct_op(dataFile)
           f == Fit_op(k.inst, "tfidf_in_init", model, "none",
                       AbsentIndex, AbsentModel)
       IN  /\ k.outcome = "ok"
           /\ f.outcome = "ok"
           /\ inst = f.inst
           /\ indexFile = f.indexFile
           /\ modelFile = f.modelFile
    /\ last = NoCall("fit", "ok")
    /\ changes = 0
    /\ proc = [entry |-> "threads", pc |-> "serving", load |-> "none",
               fit |-> "ok", calls |-> [t \in Threads |-> Idle]]

ConcNext ==
    \E t \in Threads :
        \/ \E q \in LifeQueries, k \in TopKs : CallBegin(t, q, k)
        \/ CallSearch(t)
        \/ CallScore(t)
        \/ CallReturn(t)

ConcSpec == ConcInit /\ [][ConcNext]_vars

-----------------------------------------------------------------------------
(* The script over a catalog one entry larger than the candidate pool:     *)
(* copies of one filler entry, told apart by their ids, and the entry EA   *)
(* at the first or at the last position.                                   *)

PoolSize == K_CANDIDATES + 1

Filler(i) == [id |-> ToString(i), title |-> s_Max, alt_titles |-> <<>>,
              tags |-> <<>>, description |-> s_Max]

BigCatalog(p) == [i \in 1..PoolSize |-> IF i = p THEN EA ELSE Filler(i)]

\* The filler text and the text of EA fall in different buckets, so an
\* encoder can tell them apart.  PoolModels: the filler text has direction
\* 0, the text of EA and the queries each the same direction or the
\* orthogonal one, under either tie order.
PoolModels ==
    {m \in [embed : [Buckets -> {0, 1}], ties : TieOrders] :
        Encode(m, CombinedText(Filler(1))) = 0}
\* a fit that completes, and one that fails between its two files
PoolFails == {"none", "dump"}
PoolQueries == {s_SOLO, s_max}
PoolTopKs == {1, PoolSize}

\* artifacts left on disk by an earlier run over a catalog of two entries
PoolStale == {<<>>, <<EA, EB>>}

PoolInit ==
    /\ \E p \in {1, PoolSize} : dataFile = CatalogFile(BigCatalog(p))
    /\ model \in PoolModels
    /\ \E c \in PoolStale :
          /\ indexFile = ArtifactsOf(c, model, "none")[1]
          /\ modelFile = ArtifactsOf(c, model, "none")[2]
    /\ inst = NotConstructed
    /\ last = NoCall("none", "ok")
    /\ changes = 0
    /\ proc = Proc("lib", "run")

PoolNext ==
    \/ Construct
    \/ \E build \in BuildsOf(inst), fail \in PoolFails : Fit(build, fail)
    \/ Save("none")
    \/ Load
    \/ \E q \in PoolQueries, k \in PoolTopKs : Recommend(q, k)

PoolSpec == PoolInit /\ [][PoolNext]_vars

-----------------------------------------------------------------------------
(* The reader page of the Streamlit application (src/app/main.py).  One    *)
(* action is one run of the script: Streamlit runs App.run from the top    *)
(* for every widget interaction and for every st.rerun().  The interaction *)
(* that caused the run is the run's event; every other widget returns its  *)
(* default.  The chapter list is what get_chapters returns in that run.    *)
(* st.session_state is proc.session; proc.run holds the locals of the run *)
(* (chapters, current_idx) and how far it got.                             *)

MaxChapters == 3

\* title of a chapter whose MangaDex title is null
NoTitle == "<None>"

\* the chapters get_chapters can return: two of them differ only in a null
\* against an empty title, so their dropdown labels are the same
ChapterKinds ==
    {[chapter |-> "1", title |-> NoTitle],
     [chapter |-> "1", title |-> ""],
     [chapter |-> "2", title |-> NoTitle]}

ChapterLists == UNION {[1..k -> ChapterKinds] : k \in 0..MaxChapters}

\* f"Ch {c['attributes']['chapter']} - {c['attributes']['title'] or ''}"
ChapterOption(c) ==
    <<"Ch ", c.chapter, " - ", IF c.title = NoTitle THEN "" ELSE c.title>>

ChapterOptions(chapters) ==
    [i \in 1..Len(chapters) |-> ChapterOption(chapters[i])]

\* chapter_options.index(selected_opt): the first position holding the option
OptionIndex(options, opt) ==
    (CHOOSE i \in 1..Len(options) :
        /\ options[i] = opt
        /\ \A j \in 1..(i - 1) : options[j] # opt) - 1

Pages == {"Discover", "Reader", "About"}
NoManga == "<None>"

\* the 'selected_manga' a Read button can store: an id of the catalog
MangaIds == {inst.df[i].id : i \in 1..Len(inst.df)}

NoEvent == [kind |-> "none", key |-> <<"", "">>, pos |-> 0]
NavEvent(p) == [kind |-> "nav", key |-> <<"nav", p>>, pos |-> 0]
ReadEvent(id) == [kind |-> "button", key |-> <<"read", id>>, pos |-> 0]
ButtonEvent(prefix, name) == [kind |-> "button", key |-> <<prefix, name>>, pos |-> 0]
SelectEvent(prefix, j) == [kind |-> "select", key |-> <<prefix, "chap_select">>, pos |-> j]

NavPrefixes == {"top", "bottom"}
NavButtons == {"prev", "overview_prev", "next", "overview_next"}

Events ==
    {NoEvent}
        \cup {NavEvent(p) : p \in Pages}
        \cup {ReadEvent(id) : id \in MangaIds}
        \cup {ButtonEvent(prefix, name) : prefix \in NavPrefixes, name \in NavButtons}
        \cup {ButtonEvent("reader", "go_to_overview"),
              ButtonEvent("top", "refresh_chapter")}
        \cup {SelectEvent(prefix, j) : prefix \in NavPrefixes, j \in 0..(MaxChapters - 1)}

\* st.button(..., key=...) is True in the run its click caused
Clicked(ev, prefix, name) == ev.kind = "button" /\ ev.key = <<prefix, name>>

\* a session that has not run the script yet: no key is set
NewSession ==
    [page |-> "<unset>", selected_manga |-> NoManga,
     has_index |-> FALSE, current_chapter_index |-> 0]

NoRun == [reached |-> FALSE, chapters |-> <<>>, current_idx |-> 0,
          clamped |-> FALSE, outcome |-> "none"]

\* a run that ended before picking a chapter
Ended(s, rerun) == [session |-> s, rerun |-> rerun, run |-> [NoRun EXCEPT !.outcome = "ok"]]

\* if st.session_state['current_chapter_index'] > len(chapters): reset to 0
ClampIndex_off_by_one(idx, n) == IF idx > n THEN 0 ELSE idx

\* if st.session_state['current_chapter_index'] >= len(chapters): reset to 0
ClampIndex(idx, n) == IF idx >= n THEN 0 ELSE idx

\* render_nav_buttons(key_prefix): the session after the call and whether
\* the call ended the run with st.rerun()
RenderNavButtons(prefix, s, current_idx, chapters, ev) ==
    LET chapter_options == ChapterOptions(chapters)
        selected_opt ==
            IF /\ ev.kind = "select"
               /\ ev.key = <<prefix, "chap_select">>
               /\ ev.pos < Len(chapter_options)
            THEN chapter_options[ev.pos + 1]
            ELSE chapter_options[current_idx + 1]
        new_idx == OptionIndex(chapter_options, selected_opt)
    IN  IF current_idx > 0 /\ Clicked(ev, prefix, "prev")
        THEN [session |-> [s EXCEPT !.current_chapter_index = @ - 1],
              rerun |-> TRUE]
        ELSE IF ~(current_idx > 0) /\ Clicked(ev, prefix, "overview_prev")
        THEN [session |-> [s EXCEPT !.page = "Discover"], rerun |-> TRUE]
        ELSE IF new_idx # current_idx
        THEN [session |-> [s EXCEPT !.current_chapter_index = new_idx],
              rerun |-> TRUE]
        ELSE IF prefix = "top" /\ Clicked(ev, "top", "refresh_chapter")
        THEN [session |-> s, rerun |-> TRUE]
        ELSE IF current_idx < Len(chapters) - 1 /\ Clicked(ev, prefix, "next")
        THEN [session |-> [s EXCEPT !.current_chapter_index = @ + 1],
              rerun |-> TRUE]
        ELSE IF /\ ~(current_idx < Len(chapters) - 1)
                /\ Clicked(ev, prefix, "overview_next")
        THEN [session |-> [s EXCEPT !.page = "Discover"], rerun |-> TRUE]
        ELSE [session |-> s, rerun |-> FALSE]

\* App.render_reader.  chapters[current_idx] raises IndexError for an index
\* past the list; a negative index would be refused by the selectbox
RenderReader_op(s, ev, chapters) ==
    IF s.selected_manga = NoManga
    THEN IF Clicked(ev, "reader", "go_to_overview")
         THEN Ended([s EXCEPT !.page = "Discover"], TRUE)
         ELSE Ended(s, FALSE)
    ELSE IF chapters = <<>>
    THEN Ended(s, FALSE)
    ELSE
    LET stored == IF s.has_index THEN s.current_chapter_index ELSE 0
        current_idx == ClampIndex(stored, Len(chapters))
        s1 == [s EXCEPT !.has_index = TRUE, !.current_chapter_index = current_idx]
        picked(outcome) ==
            [reached |-> TRUE, chapters |-> chapters,
             current_idx |-> current_idx, clamped |-> current_idx # stored,
             outcome |-> outcome]
    IN  IF current_idx \notin 0..(Len(chapters) - 1)
        THEN [session |-> s1, rerun |-> FALSE, run |-> picked("raised")]
        ELSE
        LET top == RenderNavButtons("top", s1, current_idx, chapters, ev)
            bottom == RenderNavButtons("bottom", s1, current_idx, chapters, ev)
        IN  IF top.rerun
            THEN [session |-> top.session, rerun |-> TRUE, run |-> picked("ok")]
            ELSE [session |-> bottom.session, rerun |-> bottom.rerun,
                  run |-> picked("ok")]

\* App.render_discovery: the Read button of a result
RenderDiscovery_op(s, ev) ==
    IF \E id \in MangaIds : Clicked(ev, "read", id)
    THEN Ended([s EXCEPT !.selected_manga = ev.key[2],
                         !.has_index = TRUE,
                         !.current_chapter_index = 0,
                         !.page = "Reader"], TRUE)
    ELSE Ended(s, FALSE)

\* App.run after load_model returned the recommender
Run_op(s, ev, chapters) ==
    LET s0 == IF s.page = "<unset>" THEN [s EXCEPT !.page = "Discover"] ELSE s
        nav_selection == IF ev.kind = "nav" THEN ev.key[2] ELSE s0.page
    IN  IF nav_selection # s0.page
        THEN Ended([s0 EXCEPT !.page = nav_selection], TRUE)
        ELSE IF s0.page = "Discover" THEN RenderDiscovery_op(s0, ev)
        ELSE IF s0.page = "Reader" THEN RenderReader_op(s0, ev, chapters)
        ELSE Ended(s0, FALSE)

\* one run of the script for a widget interaction of the user
ReaderInteract(ev, chapters) ==
    LET r == Run_op(proc.session, ev, chapters)
    IN  /\ proc.entry = "reader"
        /\ proc.pc = "idle"
        /\ ev # NoEvent
        /\ proc' = [proc EXCEPT !.session = r.session, !.run = r.run,
                                !.pc = IF r.rerun THEN "rerun" ELSE "idle"]
        /\ UNCHANGED <<dataFile, indexFile, modelFile, model, inst, last, changes>>

\* the run that st.rerun() or a reload of the page starts: no widget
\* has changed
ReaderRerun(chapters) ==
    LET r == Run_op(proc.session, NoEvent, chapters)
    IN  /\ proc.entry = "reader"
        /\ proc' = [proc EXCEPT !.session = r.session, !.run = r.run,
                                !.pc = IF r.rerun THEN "rerun" ELSE "idle"]
        /\ UNCHANGED <<dataFile, indexFile, modelFile, model, inst, last, changes>>

ReaderInit ==
    /\ dataFile = CatalogFile(<<EA, EB>>)
    /\ model = DefaultModel
    /\ LET k == Construct_op(dataFile)
           f == Fit_op(k.inst, "tfidf_in_init", model, "none",
                       AbsentIndex, AbsentModel)
       IN  /\ k.outcome = "ok"
           /\ f.outcome = "ok"
           /\ inst = f.inst
           /\ indexFile = f.indexFile
           /\ modelFile = f.modelFile
    /\ last = NoCall("fit", "ok")
    /\ changes = 0
    /\ proc = [entry |-> "reader", pc |-> "rerun", load |-> "none",
               fit |-> "ok", session |-> NewSession, run |-> NoRun]

ReaderNext ==
    \/ \E ev \in Events, chapters \in ChapterLists : ReaderInteract(ev, chapters)
    \/ \E chapters \in ChapterLists : ReaderRerun(chapters)

ReaderSpec == ReaderInit /\ [][ReaderNext]_vars

-----------------------------------------------------------------------------
(* Properties *)

Returned == last.op = "recommend" /\ last.outcome = "ok"

\* C1 as stated: recommend returns its results by descending final score,
\* and results of equal final score by ascending catalog position.
C1_TiesByCatalogPosition ==
    Returned =>
        \A a, b \in 1..Len(last.result) :
            a < b =>
                \/ last.result[a].score > last.result[b].score
                \/ /\ last.result[a].score = last.result[b].score
                   /\ last.result[a].pos < last.result[b].pos

\* C1, amended: recommend returns its results by descending final score,
\* and results of equal final score in the order of the dense search
\* (the sort is stable over the candidate order).
C1_SortedTiesByDenseRank ==
    Returned =>
        \A a, b \in 1..Len(last.result) :
            a < b =>
                \/ last.result[a].score > last.result[b].score
                \/ /\ last.result[a].score = last.result[b].score
                   /\ last.result[a].rank < last.result[b].rank

\* two results of equal final score whose catalog positions descend
C1_Witness ==
    /\ Returned
    /\ \E a, b \in 1..Len(last.result) :
          /\ a < b
          /\ last.result[a].score = last.result[b].score
          /\ last.result[a].pos > last.result[b].pos

\* C2: a recommend that returns yields exactly min(top_k, considered)
\* results, considered being the number of non-sentinel positions among
\* the min(200, n) dense candidates; never more than top_k or than the
\* catalog size n.
C2_ResultLength ==
    Returned =>
        LET n == Len(inst.df)
            candidates == IF n < K_CANDIDATES THEN n ELSE K_CANDIDATES
            ntotal == Len(inst.index.v)
            considered == IF ntotal < candidates THEN ntotal ELSE candidates
        IN  /\ Len(last.result) =
                  IF last.top_k < considered THEN last.top_k ELSE considered
            /\ Len(last.result) <= last.top_k
            /\ Len(last.result) <= n

\* the index holds fewer vectors than the catalog has entries, so the
\* search pads with sentinels and fewer than top_k results come back
C2_Witness ==
    /\ Returned
    /\ Len(inst.index.v) < Len(inst.df)
    /\ last.top_k > Len(inst.index.v)
    /\ Len(last.result) = Len(inst.index.v)
    /\ Len(last.result) > 0

\* C3 as stated: an entry whose title equals the query, case aside, is the
\* first result.
C3_TitleQueryRanksFirst ==
    Returned =>
        \A p \in 1..Len(inst.df) :
            Lower(inst.df[p].title) = Lower(last.query) =>
                /\ Len(last.result) >= 1
                /\ last.result[1].pos = p - 1

\* C3, amended: an entry among the dense candidates whose title equals the
\* query, case aside, gets title boost 0.5 and the reason "Direct Title
\* Match"; it is the first result whenever every other candidate scores
\* strictly lower, and whatever is returned ahead of it scores at least as
\* much.
C3_TitleQueryBoosted ==
    Returned =>
        LET full == Recommend_op(inst, model, last.query, Len(inst.df)).result
        IN  \A i \in 1..Len(full) :
                Lower(inst.df[full[i].pos + 1].title) = Lower(last.query) =>
                    /\ full[i].title_boost = BOOST_DIRECT
                    /\ full[i].match_reason = "Direct Title Match"
                    /\ (\A j \in 1..Len(full) :
                            j # i => full[j].score < full[i].score)
                            => last.result[1].pos = full[i].pos
                    /\ last.result[1].pos # full[i].pos
                            => last.result[1].score >= full[i].score

\* the query is a title in another letter case and its entry comes first,
\* ahead of another result
C3_Witness ==
    /\ Returned
    /\ Len(last.result) >= 2
    /\ Lower(last.result[1].title) = Lower(last.query)
    /\ last.result[1].title # last.query
    /\ last.result[1].title_boost = BOOST_DIRECT
    /\ last.result[1].score > last.result[2].score

\* C4: every returned score is min(0.5 * dense + 0.3 * sparse + boost, 1.0),
\* hence at most 1.0; nothing bounds it from below.
C4_ScoreCapped ==
    Returned =>
        \A i \in 1..Len(last.result) :
            LET r == last.result[i]
                blend == 5 * r.dense_score + 3 * r.sparse_score + 10 * r.title_boost
            IN  /\ r.score <= 100000
                /\ r.score = IF blend > 100000 THEN 100000 ELSE blend

\* one result whose blend exceeds 1.0 and is cut to 1.0, next to one whose
\* score is negative
C4_Witness ==
    /\ Returned
    /\ \E i, j \in 1..Len(last.result) :
          /\ 5 * last.result[i].dense_score + 3 * last.result[i].sparse_score
                 + 10 * last.result[i].title_boost > 100000
          /\ last.result[i].score = 100000
          /\ last.result[j].score < 0

\* C5: recommend is deterministic for fixed state: a call changes nothing
\* that any later call depends on, and the same call made again right
\* away returns an equal sequence.  (Answers are a function of the instance
\* and the encoder, so they are compared only across a step that changed
\* either.)
C5_RecommendDeterministic ==
    [][last'.op = "recommend" =>
          /\ \/ inst' = inst /\ model' = model
             \/ \A q \in LifeQueries, k \in TopKs :
                    Recommend_op(inst', model', q, k)
                        = Recommend_op(inst, model, q, k)
          /\ (/\ last.op = "recommend"
              /\ last.query = last'.query
              /\ last.top_k = last'.top_k)
                 => /\ last'.outcome = last.outcome
                    /\ last'.result = last.result]_vars

\* a recommend over a fitted two-entry catalog has returned both entries
C5_Witness ==
    /\ Returned
    /\ Len(last.result) = 2
    /\ Recommend_op(inst, model, last.query, last.top_k).result = last.result

\* C6: once fit() has succeeded, load() on a fresh instance over the same
\* catalog returns True, and that instance then answers every query as the
\* fitted instance does.
C6_FitLoadRoundTrip ==
    (last.op = "fit" /\ last.outcome = "ok") =>
        LET fresh == Construct_op(dataFile).inst
            loaded == Load_op(fresh, indexFile, modelFile)
        IN  fresh.df = inst.df =>
                /\ loaded.outcome = "true"
                /\ \A q \in Queries, k \in TopKs :
                       Recommend_op(loaded.inst, model, q, k)
                           = Recommend_op(inst, model, q, k)

\* load() has returned True on an instance that never ran fit(), over the
\* artifacts a fit of the same catalog wrote, and it answers queries
C6_Witness ==
    /\ last.op = "load"
    /\ last.outcome = "true"
    /\ ~inst.combined_text
    /\ dataFile.state = "complete"
    /\ inst.df = FillDescription(dataFile.rows)
    /\ Len(inst.index.v) = Len(inst.df)
    /\ \E q \in Queries :
           LET r == Recommend_op(inst, model, q, MaxTopK)
           IN  r.outcome = "ok" /\ Len(r.result) = Len(inst.df)

\* C8: load() returns False, without raising and without changing the
\* instance, when either artifact is absent; when it returns True both
\* artifacts exist and index, vectorizer, matrix and embeddings are the
\* ones of the artifacts.
C8_LoadAbsentArtifact ==
    [][(last'.op = "load" /\ Load) =>
          /\ (indexFile.state = "absent" \/ modelFile.state = "absent")
                 => (last'.outcome = "false" /\ inst' = inst)
          /\ last'.outcome = "true" =>
                 /\ indexFile.state = "present"
                 /\ modelFile.state = "present"
                 /\ inst'.index = Rows(indexFile.rows)
                 /\ inst'.tfidf = modelFile.tfidf
                 /\ inst'.tfidf_matrix = modelFile.tfidf_matrix
                 /\ inst'.embeddings = modelFile.embeddings]_vars

\* load() has returned False with the index artifact present and the model
\* artifact absent
C8_Witness ==
    /\ last.op = "load"
    /\ last.outcome = "false"
    /\ indexFile.state = "present"
    /\ modelFile.state = "absent"
    /\ ~inst.index.some

\* C7 as stated: over a catalog of zero entries the recommender can be
\* built, and recommend returns an empty sequence without raising and
\* before the embedding model is touched.
C7_EmptyCatalogReturnsEmpty ==
    /\ (last.op = "construct" /\ dataFile = CatalogFile(<<>>)) => last.outcome = "ok"
    /\ (last.op = "recommend" /\ Len(inst.df) = 0) =>
           /\ last.outcome = "ok"
           /\ last.result = <<>>
           /\ ~last.encoded

\* C9: in the application every recommend call is made on an instance on
\* which load() has returned True or, load() having returned False, fit()
\* has completed.
C9_RecommendAfterLoadOrFit ==
    (proc.entry = "app" /\ last.op = "recommend") =>
        /\ \/ proc.load = "true"
           \/ proc.load = "false" /\ proc.fit = "ok"
        /\ inst.index.some
        /\ inst.tfidf.fitted
        /\ inst.tfidf_matrix.some

\* the application has answered a query on the instance it fitted itself
\* after load() returned False
C9_Witness ==
    /\ proc.entry = "app"
    /\ Returned
    /\ proc.load = "false"
    /\ proc.fit = "ok"
    /\ Len(last.result) > 0

\* C10 as stated: when a catalog entry lacks id or title, fit() fails as a
\* whole and leaves no index or sparse matrix on the instance.
C10_FitRejectsMissingIdOrTitle ==
    [][(/\ last'.op = "fit"
        /\ \E build \in BuildsOf(inst) : MainFit(build, "none")
        /\ \E i \in 1..Len(inst.df) :
               inst.df[i].id = NaNId \/ inst.df[i].title = NaNText)
          => /\ last'.outcome = "raised"
             /\ ~inst'.index.some
             /\ ~inst'.tfidf_matrix.some]_vars

\* C11 as stated: whenever recommend can run, after a fit() that completed
\* or a load() that returned True, the dense index, the sparse matrix and
\* the catalog table have the same number of rows, and row i of each
\* derives from the same catalog entry.
C11_RowsAligned ==
    (\/ last.op = "fit" /\ last.outcome = "ok"
     \/ last.op = "load" /\ last.outcome = "true") =>
        /\ Len(inst.index.v) = Len(inst.df)
        /\ Len(inst.tfidf_matrix.v) = Len(inst.df)
        /\ \A i \in 1..Len(inst.df) :
              /\ inst.index.v[i] = Encode(model, CombinedText(inst.df[i]))
              /\ inst.tfidf_matrix.v[i]
                     = TfidfRow(inst.tfidf.idf,
                                Tokens(CombinedText(inst.df[i])))

\* the query tokens, the lowercased title and the lowercased joined
\* alternate titles of the entry behind a returned result
QueryTokens == SeqToSet(Split(Lower(last.query)))
TitleOf(r) == Lower(inst.df[r.pos + 1].title)
AltsOf(r) ==
    LET alts == AltTitlesOf(inst, r.pos)
    IN  Join([i \in 1..Len(alts) |-> Lower(alts[i])])
NoTokenInTitle(r) == \A w \in QueryTokens : ~Contains(TitleOf(r), w)

\* C12 as stated: a result whose title contains no query token but whose
\* alternate titles contain one as a whole word has title boost 0.5 or 0.2,
\* never 0.
C12_AltTitleNeverZero ==
    Returned =>
        \A i \in 1..Len(last.result) :
            LET r == last.result[i]
            IN  (/\ NoTokenInTitle(r)
                 /\ \E w \in QueryTokens : w \in SeqToSet(Split(AltsOf(r))))
                    => r.title_boost # 0

\* C12, amended: for a result whose title contains no query token, the
\* title boost is 0.5 when the lowercased query is a substring of the joined
\* alternate titles, and otherwise 0.2 when a query token longer than 3
\* characters is a whole word of the alternate titles; a shorter token
\* alone gives no boost.
C12_AltTitleBoostTier ==
    Returned =>
        \A i \in 1..Len(last.result) :
            LET r == last.result[i]
                direct == Contains(AltsOf(r), Lower(last.query))
                long == \E w \in QueryTokens :
                            Len(w) > 3 /\ w \in SeqToSet(Split(AltsOf(r)))
            IN  NoTokenInTitle(r) =>
                    /\ direct => r.title_boost = 5000
                    /\ (~direct /\ long) => r.title_boost = 2000
                    /\ (~direct /\ ~long) => r.title_boost = 0

\* a result that owes a 0.2 boost to its alternate titles alone
C12_Witness ==
    /\ Returned
    /\ \E i \in 1..Len(last.result) :
          /\ NoTokenInTitle(last.result[i])
          /\ QueryTokens # {}
          /\ last.result[i].title_boost = 2000

\* s without its leading and trailing white space
RECURSIVE TrimLeft(_)
TrimLeft(s) == IF s # <<>> /\ IsSpace(s[1]) THEN TrimLeft(Tail(s)) ELSE s
RECURSIVE TrimRight(_)
TrimRight(s) ==
    IF s # <<>> /\ IsSpace(s[Len(s)])
    THEN TrimRight(SubSeq(s, 1, Len(s) - 1))
    ELSE s
Trimmed(s) == TrimRight(TrimLeft(s))

\* C13 as stated: the title boost of a result is 0.5 if the lowercased,
\* whitespace-trimmed query is a substring of the title or of the joined
\* alternate titles; otherwise 0.2 if a query token longer than 3
\* characters is a whole word of the title or alternate titles; otherwise 0.
C13_BoostOfTrimmedQuery ==
    Returned =>
        \A i \in 1..Len(last.result) :
            LET r == last.result[i]
                q == Trimmed(Lower(last.query))
                direct == Contains(TitleOf(r), q) \/ Contains(AltsOf(r), q)
                word == \E w \in QueryTokens :
                            /\ Len(w) > 3
                            /\ \/ w \in SeqToSet(Split(TitleOf(r)))
                               \/ w \in SeqToSet(Split(AltsOf(r)))
            IN  r.title_boost = IF direct THEN 5000 ELSE IF word THEN 2000 ELSE 0

\* C14 as stated: the two artifacts are written as one coordinated
\* operation: the index file never exists without the bundle of the same
\* fit next to it, and a load() that returns True restores an index and a
\* bundle of one fit.
C14_ArtifactsFromOneFit ==
    /\ indexFile.state = "present" =>
           /\ modelFile.state = "present"
           /\ modelFile.embeddings.v = indexFile.rows
           /\ Len(modelFile.tfidf_matrix.v) = Len(indexFile.rows)
    /\ (last.op = "load" /\ last.outcome = "true") =>
           /\ inst.embeddings.v = inst.index.v
           /\ Len(inst.tfidf_matrix.v) = Len(inst.index.v)

\* a build step of fit() fails: the combined text, the embedding or the
\* TF-IDF fit
BuildFails(I, fail) ==
    \/ CombinedTextRaises(I.df)
    \/ fail = "encode"
    \/ TfidfFitRaises(Analyze(CombinedTexts(I.df)))

\* C15: a fit() of which a build step fails raises and leaves both artifact
\* files as they were, absent or present.
C15_BuildFailureWritesNothing ==
    [][\A build \in BuildsOf(inst), fail \in FailPoints :
          (last'.op = "fit" /\ BuildFails(inst, fail) /\ Fit(build, fail)) =>
              /\ last'.outcome = "raised"
              /\ indexFile' = indexFile
              /\ modelFile' = modelFile]_vars

\* the TF-IDF fit has failed on a catalog of stop words, after the index
\* was built, with the artifacts of an earlier fit still on disk
C15_Witness ==
    /\ last.op = "fit"
    /\ last.outcome = "raised"
    /\ ~CombinedTextRaises(inst.df)
    /\ TfidfFitRaises(Analyze(CombinedTexts(inst.df)))
    /\ inst.index.some
    /\ indexFile.state = "present"
    /\ indexFile.rows # inst.index.v

\* C16 as stated: a load() that cannot restore index, vectorizer and matrix
\* together, an artifact being absent or the bundle unreadable, does not
\* return True and leaves every attribute of the instance as it was.
C16_FailedLoadRestoresNothing ==
    [][(/\ last'.op = "load"
        /\ Load
        /\ \/ indexFile.state # "present"
           \/ modelFile.state # "present")
          => /\ last'.outcome # "true"
             /\ inst' = inst]_vars

\* C17 as stated: for the empty query and for a query of stop words only,
\* no returned result has a title boost or the reason "Direct Title Match".
C17_DegenerateQueryNoBoost ==
    (Returned /\ Tokens(Lower(last.query)) = <<>>) =>
        \A i \in 1..Len(last.result) :
            /\ last.result[i].title_boost = 0
            /\ last.result[i].match_reason # "Direct Title Match"

\* the composite text in which every missing field is the empty string
TextOrEmpty(x) == IF x = NaNText THEN s_empty ELSE x
ListOrEmpty(x) == IF x = NaNList THEN s_empty ELSE Join(x)
ExpectedText(e) ==
    TextOrEmpty(e.title) \o <<" ">> \o TextOrEmpty(e.title) \o <<" ">>
        \o ListOrEmpty(e.alt_titles) \o <<" ">> \o ListOrEmpty(e.tags)
        \o <<" ">> \o TextOrEmpty(e.description)
ExpectedDocs(df) == Analyze([i \in 1..Len(df) |-> ExpectedText(df[i])])

\* C18 as stated: fit() builds for every entry the text title, title,
\* joined alternate titles, joined tags, description, a missing field
\* counting as the empty string: a missing field makes fit() neither raise
\* nor lose the other fields of the entry, so the sparse row of each entry
\* is the row of that text.
C18_MissingFieldIsEmptyText ==
    [][(last'.op = "fit" /\ \E build \in BuildsOf(inst) : MainFit(build, "none")) =>
          /\ last'.outcome = "raised" => TfidfFitRaises(ExpectedDocs(inst.df))
          /\ last'.outcome = "ok" =>
                 \A i \in 1..Len(inst.df) :
                     inst'.tfidf_matrix.v[i]
                         = TfidfRow(IdfOf(Vocabulary(ExpectedDocs(inst.df)),
                                          ExpectedDocs(inst.df)),
                                    ExpectedDocs(inst.df)[i])]_vars

\* C19: a step of a recommend call leaves the catalog table, the dense
\* index, the vectorizer, the sparse matrix and the embeddings as they
\* were, and a call that returns while other calls are in flight returns
\* what the same call returns running alone.
C19_ConcurrentCallsIsolated ==
    [][/\ inst'.df = inst.df
       /\ inst'.index = inst.index
       /\ inst'.tfidf = inst.tfidf
       /\ inst'.tfidf_matrix = inst.tfidf_matrix
       /\ inst'.embeddings = inst.embeddings
       /\ \A t \in Threads :
              (proc.calls[t].pc = "scored" /\ proc'.calls[t].pc = "idle") =>
                  LET alone == Recommend_op(inst, model, proc.calls[t].query,
                                            proc.calls[t].top_k)
                  IN  /\ last'.outcome = alone.outcome
                      /\ last'.result = alone.result]_vars

\* a call has returned two results while the other thread, with another
\* query, is past its search
C19_Witness ==
    /\ proc.entry = "threads"
    /\ Returned
    /\ Len(last.result) = 2
    /\ \E t \in Threads :
          /\ proc.calls[t].pc = "searched"
          /\ proc.calls[t].query # last.query
          /\ proc.calls[t].qe # Encode(model, last.query)

\* the catalog positions a returned list names
ReturnedPositions == {last.result[i].pos : i \in 1..Len(last.result)}

\* the rows of the index strictly nearer to the query embedding qe than
\* row p is.  Row p is among the k nearest neighbours, however rows of
\* equal inner product are ordered, exactly when fewer than k rows are
\* strictly nearer.
StrictlyNearer(rows, qe, p) ==
    {j \in 1..Len(rows) :
        InnerProduct(rows[j], qe) > InnerProduct(rows[p], qe)}

\* what row p of the index would score for the last query were it a candidate
ScoreIfCandidate(p) ==
    ScoreCandidate(inst, last.query, QueryTfidf(inst.tfidf, last.query), 1,
                   [idx |-> p - 1,
                    d |-> InnerProduct(inst.index.v[p],
                                       Encode(model, last.query))]).score

\* C20: every entry recommend returns is a row of the index (never the
\* sentinel position -1) with fewer than min(200, catalog size) rows
\* strictly nearer to the query by dense similarity, and the result is no
\* longer than that pool, whatever the sparse scores and title boosts are.
C20_OnlyDensePoolReturned ==
    Returned /\ inst.index.some =>
        /\ Len(last.result) <= Min(K_CANDIDATES, Len(inst.df))
        /\ \A i \in 1..Len(last.result) :
              /\ last.result[i].pos \in 0..(Len(inst.index.v) - 1)
              /\ Cardinality(StrictlyNearer(inst.index.v,
                                            Encode(model, last.query),
                                            last.result[i].pos + 1))
                     < Min(K_CANDIDATES, Len(inst.df))

\* a call over a catalog of 201 entries returned all 200 candidates; the
\* one entry left out has 200 rows strictly nearer to the query than it is,
\* and would have scored above the first result
C20_Witness ==
    /\ Returned
    /\ inst.index.some
    /\ Len(inst.df) = PoolSize
    /\ Len(inst.index.v) = PoolSize
    /\ Len(last.result) = K_CANDIDATES
    /\ \E p \in 1..PoolSize :
          /\ (p - 1) \notin ReturnedPositions
          /\ Cardinality(StrictlyNearer(inst.index.v,
                                        Encode(model, last.query), p))
                 = K_CANDIDATES
          /\ ScoreIfCandidate(p) > last.result[1].score

\* a call over an index with fewer rows than the catalog: the search pads
\* the candidates with the sentinel, and only the rows of the index return
C20_SentinelReached ==
    /\ Returned
    /\ inst.index.some
    /\ Len(inst.index.v) < Min(K_CANDIDATES, Len(inst.df))
    /\ Len(last.result) = Len(inst.index.v)
    /\ Len(last.result) > 0

\* C21: whenever a run of the reader page picks the current chapter from a
\* non-empty chapter list, the index it uses is within 0 .. len(chapters)-1
\* (the pick never raises), and the index kept in the session is never
\* negative, whatever clicks, selections, manga switches and changes of
\* the chapter list came before.
C21_ChapterIndexInRange ==
    /\ proc.session.current_chapter_index >= 0
    /\ proc.run.reached =>
          /\ proc.run.chapters # <<>>
          /\ proc.run.current_idx \in 0..(Len(proc.run.chapters) - 1)
          /\ proc.run.outcome = "ok"

\* a run picked chapter 0 because the list had become shorter than the
\* index the session held, after a Next click had moved the index up
C21_Witness ==
    /\ proc.run.reached
    /\ proc.run.clamped
    /\ proc.run.current_idx = 0
    /\ Len(proc.run.chapters) = 1
    /\ proc.session.selected_manga # NoManga

\* a run picked the last chapter of a list of MaxChapters
C21_LastChapterReached ==
    /\ proc.run.reached
    /\ ~proc.run.clamped
    /\ proc.run.current_idx = MaxChapters - 1

=============================================================================
